---------------------------- MODULE Spec2Model ----------------------------
(***************************************************************************)
(* Model of the emotion-insight engine of HR-Mood-Manager:                 *)
(*   - the mood record store of database.py (save, list, backup, restore), *)
(*     and its tasks table (create, delete),                               *)
(*   - api_server.EmotionRAG (record cache, vector index, query, report),  *)
(*   - rag_enhanced.EnhancedEmotionRAG (record cache, rebuild, statistics, *)
(*     rule-based query, report) and its Gemini configuration,             *)
(*   - the collection, query and report of emotion_rag_app.                *)
(* Every request handler of api_server.py is a coroutine without a         *)
(* suspension point around the engine call and the server runs one event   *)
(* loop (uvicorn.run, one process), so one handler is one action.          *)
(***************************************************************************)
EXTENDS Integers, Sequences, FiniteSets, TLC

(***************************************************************************)
(* Bounds of the model.                                                    *)
(***************************************************************************)
\* number of mood records ever saved in one behaviour of Spec
MaxClock == 2
\* longest record set handed to the answer synthesizer in SpecSynth
MaxMetas == 3
\* events beyond the vector search's top-K in the stores of SpecTopK
BigExtra == 1
\* longest store of SpecStats
MaxStats == 10
\* longest API key of SpecGemini, in characters
MaxKeyLen == 3
\* longest store of SpecNotes
MaxNotes == 6
\* events beyond the cache's cap in the stores of SpecCap
CapExtra == 1
\* number of tasks ever created in one behaviour of SpecTasks
MaxTasks == 3

(***************************************************************************)
(* Program constants.                                                      *)
(***************************************************************************)
\* database.get_mood_records(limit=1000) in build_from_database
CacheCap == 1000
\* database.get_mood_records(..., limit=100) in get_insights
InsightsLimit == 100
\* collection.query(..., n_results=10)
TopK == 10
\* collection.query(..., n_results=5) in emotion_rag_app
AppTopK == 5
\* create_backup() every 10 records
BackupEvery == 10
\* "a significant" if count > 2
SignificantOver == 2
\* self.records_cache[-10:] in query_rule_based
PatternWindow == 10
\* "█" * min(int(pct/3), 20) in api_server.get_insights
BarDivisor == 3
BarCap == 20
\* "█" * int(pct / 5) in rag_enhanced.get_insights
EnhancedBarDivisor == 5
\* "█" * int(pct/3) in emotion_rag_app.get_insights
AppBarDivisor == 3
\* get_mood_records(user_id=None, limit=100), the history of emotion_rag_app
HistoryLimit == 100
\* sorted(...)[:3] in the generic answer of query_rule_based
TopShown == 3
\* emotion_variety >= 5, emotion_variety <= 2 in get_insights
HighVariety == 5
LowVariety == 2
\* avg_confidence >= 85, avg_confidence < 70 in get_insights
HighConfidence == 85
LowConfidence == 70

Emotions == {"happy", "sad"}
\* api_server.emotion_labels: the classes of the detection model
emotion_labels ==
    <<"Angry", "Disgust", "Fear", "Happy", "Neutral", "Sad", "Surprise">>
Actors == {"u1", "u2"}
\* detection confidences, in percent (MoodRecordRequest.confidence)
Confidences == {60, 90}
SomeConfidence == CHOOSE c \in Confidences : TRUE
\* user_id = None
NoUser == "None"

VARIABLES
    mood_records,   \* database: rows of table mood_records, in insertion order
    backup,         \* database: the rows held by the backup file
    clock,          \* database: CURRENT_TIMESTAMP of the latest insert
    tasks,          \* database: rows of table tasks
    task_seq,       \* database: the AUTOINCREMENT sequence of table tasks
    tasks_backup,   \* database: <<tasks, task_seq>> as the backup file has them
    embedder,       \* EmotionRAG.embedder is not None
    chroma,         \* EmotionRAG.chroma is not None
    collection,     \* EmotionRAG.collection: "unset" (attribute missing),
                    \* "none", "live" (handle of the existing collection),
                    \* "dead" (handle of a deleted collection)
    index,          \* metadatas of the backend collection "emotions"
    records_cache,  \* EmotionRAG.records_cache
    enhanced_cache, \* EnhancedEmotionRAG.records_cache
    ts_collection,  \* rag_test_server.EmotionRAG.collection: its documents
    built_with,     \* history: how the latest build_from_database of
                    \* api_server ended ("ok" or the call that raised), or
                    \* "stale" once the store has changed since
    ts_built,       \* history: the same for rag_test_server, with the
                    \* backend's treatment of a held id
    app_collection, \* emotion_rag_app.EmotionRAG.collection: "none", "live"
                    \* or "dead", as above
    app_index,      \* metadatas of the collection of emotion_rag_app
    genai,          \* rag_enhanced.genai is not None (the import succeeded)
    GEMINI_ENABLED, \* rag_enhanced.GEMINI_ENABLED
    GEMINI_API_KEY, \* rag_enhanced.GEMINI_API_KEY, a sequence of characters
    last            \* observation of the latest request: inputs and result

vars == <<mood_records, backup, clock, tasks, task_seq, tasks_backup, embedder, chroma, collection, index,
          records_cache, enhanced_cache, ts_collection, built_with, ts_built,
          app_collection, app_index,
          genai, GEMINI_ENABLED, GEMINI_API_KEY, last>>

taskVars == <<tasks, task_seq, tasks_backup>>
storeVars == <<mood_records, backup, clock, taskVars>>
engineVars == <<collection, index, records_cache, built_with>>
appVars == <<app_collection, app_index>>
otherEngines == <<enhanced_cache, ts_collection, ts_built, appVars>>
geminiVars == <<genai, GEMINI_ENABLED, GEMINI_API_KEY>>
\* what the process is able to use: the handlers of the engines leave it
capVars == <<embedder, chroma, geminiVars>>

(***************************************************************************)
(* Sequence helpers.                                                       *)
(***************************************************************************)
Reverse(s) == [i \in 1..Len(s) |-> s[Len(s) + 1 - i]]

Take(s, n) == IF Len(s) <= n THEN s ELSE SubSeq(s, 1, n)

FilterUser(s, u) ==
    LET ofUser(r) == r.user_id = u
    IN SelectSeq(s, ofUser)

(***************************************************************************)
(* The event loop serves one request at a time: `last` holds the response  *)
(* of the handler that just ran until it is sent.                          *)
(***************************************************************************)
NoResponse == [op |-> "idle"]

Idle == last = NoResponse

\* the handler returns and the response leaves the server
Respond ==
    /\ ~Idle
    /\ last' = NoResponse
    /\ UNCHANGED <<storeVars, capVars, engineVars, otherEngines>>

(***************************************************************************)
(* database.py: the mood record store.                                     *)
(***************************************************************************)
\* SELECT ... [WHERE mr.user_id = ?] ORDER BY mr.timestamp DESC LIMIT ?
get_mood_records(user_id, limit) ==
    LET newestFirst == Reverse(mood_records)
        rows == IF user_id # NoUser THEN FilterUser(newestFirst, user_id)
                ELSE newestFirst
    IN Take(rows, limit)

\* INSERT INTO mood_records ...; a backup every BackupEvery-th record
SaveMood(u, e, c) ==
    /\ Idle
    /\ clock < MaxClock
    /\ clock' = clock + 1
    /\ mood_records' = Append(mood_records,
                          [emotion |-> e, user_id |-> u, confidence |-> c,
                           timestamp |-> clock + 1])
    /\ backup' = IF Len(mood_records') % BackupEvery = 0
                 THEN mood_records' ELSE backup
    /\ tasks_backup' = IF Len(mood_records') % BackupEvery = 0
                       THEN <<tasks, task_seq>> ELSE tasks_backup
    /\ UNCHANGED <<tasks, task_seq>>
    /\ built_with' = "stale"
    /\ ts_built' = <<"stale", "">>
    /\ UNCHANGED <<capVars, collection, index, records_cache, enhanced_cache,
                   ts_collection, appVars, last>>

\* POST /api/detect-emotion, lines 621-652: the class of highest score is
\* emotion_labels[max_index]; it is saved as it stands when a user id came
\* with the request
DetectEmotion(user_id, max_index, c) ==
    LET emotion == emotion_labels[max_index]
        saves == user_id # NoUser /\ emotion # "No Face Detected"
    IN /\ Idle
       /\ clock < MaxClock
       /\ IF saves
          THEN /\ clock' = clock + 1
               /\ mood_records' = Append(mood_records,
                                     [emotion |-> emotion, user_id |-> user_id,
                                      confidence |-> c, timestamp |-> clock + 1])
               /\ backup' = IF Len(mood_records') % BackupEvery = 0
                            THEN mood_records' ELSE backup
               /\ tasks_backup' = IF Len(mood_records') % BackupEvery = 0
                                  THEN <<tasks, task_seq>> ELSE tasks_backup
               /\ UNCHANGED <<tasks, task_seq>>
               /\ built_with' = "stale"
               /\ ts_built' = <<"stale", "">>
          ELSE UNCHANGED <<storeVars, built_with, ts_built>>
       /\ last' = [op |-> "detect_emotion", emotion |-> emotion,
                   saved_to_db |-> saves]
       /\ UNCHANGED <<capVars, collection, index, records_cache, enhanced_cache,
                      ts_collection, appVars>>

\* shutil.copy2(BACKUP_PATH, DATABASE_PATH)
RestoreFromBackup ==
    /\ Idle
    /\ mood_records # backup \/ <<tasks, task_seq>> # tasks_backup
    /\ mood_records' = backup
    /\ tasks' = tasks_backup[1]
    /\ task_seq' = tasks_backup[2]
    /\ built_with' = "stale"
    /\ ts_built' = <<"stale", "">>
    /\ UNCHANGED <<backup, tasks_backup, clock, capVars, collection, index, records_cache,
                   enhanced_cache, ts_collection, appVars, last>>

(***************************************************************************)
(* database.py: the tasks table.                                           *)
(***************************************************************************)
\* no tasks, in the database as in the backup file
NoTasks ==
    /\ tasks = {}
    /\ task_seq = 0
    /\ tasks_backup = <<{}, 0>>

\* SELECT role FROM users WHERE user_id = ?: the seeded administrator and
\* the two employees; any other id has no row
RoleOf(user_id) ==
    CASE user_id = "admin" -> "hr"
      [] user_id \in Actors -> "employee"
      [] OTHER -> "no row"

\* POST /api/tasks -> database.create_task
CreateTask(assigned_to) ==
    /\ Idle
    /\ task_seq < MaxTasks
    /\ task_seq' = task_seq + 1
    /\ tasks' = tasks \cup {[id |-> task_seq + 1, assigned_to |-> assigned_to]}
    /\ last' = [op |-> "create_task", task_id |-> task_seq + 1]
    /\ UNCHANGED <<mood_records, backup, clock, tasks_backup, capVars,
                   engineVars, otherEngines>>

\* database.delete_task, lines 579-606: the table after the call and the
\* value returned
delete_task(task_id, user_id) ==
    IF user_id # NoUser /\ RoleOf(user_id) # "hr"
    THEN [tasks |-> tasks, ret |-> FALSE]
    ELSE LET rows == {t \in tasks : t.id = task_id}
         IN [tasks |-> tasks \ rows, ret |-> rows # {}]

\* DELETE /api/tasks/{task_id}?current_user=..., lines 977-985
DeleteTask(task_id, current_user) ==
    LET d == delete_task(task_id, current_user)
    IN /\ Idle
       /\ tasks' = d.tasks
       /\ last' = [op |-> "delete_task", task_id |-> task_id,
                   user |-> current_user, success |-> d.ret,
                   status |-> IF d.ret THEN 200 ELSE 403,
                   tasks_before |-> tasks]
       /\ UNCHANGED <<mood_records, backup, clock, task_seq, tasks_backup,
                      capVars, engineVars, otherEngines>>

(***************************************************************************)
(* api_server.EmotionRAG.query, lines 199-265: the answer synthesizer.     *)
(* A question is the sequence of its words; `kw in q_lower` is modelled as *)
(* "some lower-cased word of the question is kw".                          *)
(***************************************************************************)
Vocabulary == {"most", "recent", "trend", "happy", "sad", "mood",
               "negative", "team", "hello", "Most"}

\* str.lower() on the words of the vocabulary
Lower(w) == IF w = "Most" THEN "most" ELSE w

Contains(q, kw) == \E i \in 1..Len(q) : Lower(q[i]) = kw

ContainsAny(q, kws) == \E kw \in kws : Contains(q, kw)

\* ['happy', 'sad', 'angry', 'fear', 'surprise', 'disgust', 'neutral']
EmotionLiterals ==
    <<"happy", "sad", "angry", "fear", "surprise", "disgust", "neutral">>

NegativeEmotions == <<"sad", "angry", "fear", "disgust">>

\* emotion_counts: a dict in insertion order, as a sequence of <<key, count>>
RECURSIVE Bump(_, _)
Bump(counts, e) ==
    IF counts = <<>> THEN << <<e, 1>> >>
    ELSE IF Head(counts)[1] = e
         THEN << <<e, Head(counts)[2] + 1>> >> \o Tail(counts)
         ELSE <<Head(counts)>> \o Bump(Tail(counts), e)

\* confidence_sum[emotion] = confidence_sum.get(emotion, 0) + confidence
RECURSIVE AddTo(_, _, _)
AddTo(sums, e, c) ==
    IF sums = <<>> THEN << <<e, c>> >>
    ELSE IF Head(sums)[1] = e
         THEN << <<e, Head(sums)[2] + c>> >> \o Tail(sums)
         ELSE <<Head(sums)>> \o AddTo(Tail(sums), e, c)

\* the mapping a loop leaves after its left part, carried through its right
\* part: every key of the right part is added in the order the right part
\* met it first
RECURSIVE MergeCounts(_, _)
MergeCounts(left, right) ==
    IF right = <<>> THEN left
    ELSE MergeCounts(AddTo(left, Head(right)[1], Head(right)[2]), Tail(right))

\* for meta in metadatas: emotion_counts[emotion] = ... + 1, the loop taken
\* by halves so that a cache of a thousand records is counted in few nested
\* steps
RECURSIVE EmotionCounts(_)
EmotionCounts(metas) ==
    IF metas = <<>> THEN <<>>
    ELSE IF Len(metas) = 1 THEN Bump(<<>>, metas[1].emotion)
    ELSE LET half == Len(metas) \div 2
         IN MergeCounts(EmotionCounts(SubSeq(metas, 1, half)),
                        EmotionCounts(SubSeq(metas, half + 1, Len(metas))))

\* emotion_counts.get(e, 0)
RECURSIVE CountOf(_, _)
CountOf(counts, e) ==
    IF counts = <<>> THEN 0
    ELSE IF Head(counts)[1] = e THEN Head(counts)[2]
    ELSE CountOf(Tail(counts), e)

\* the last key of highest count
RECURSIVE MaxKeyLast(_)
MaxKeyLast(counts) ==
    IF Len(counts) = 1 THEN Head(counts)[1]
    ELSE LET rest == MaxKeyLast(Tail(counts))
         IN IF Head(counts)[2] > CountOf(counts, rest)
            THEN Head(counts)[1] ELSE rest

\* max(emotion_counts, key=emotion_counts.get): the first key of highest count
RECURSIVE MaxKey(_)
MaxKey(counts) ==
    IF Len(counts) = 1 THEN Head(counts)[1]
    ELSE LET rest == MaxKey(Tail(counts))
         IN IF Head(counts)[2] >= CountOf(counts, rest)
            THEN Head(counts)[1] ELSE rest

\* sorted(emotion_counts.items(), key=lambda x: x[1], reverse=True): stable
RECURSIVE InsertDesc(_, _)
InsertDesc(sorted, item) ==
    IF sorted = <<>> THEN <<item>>
    ELSE IF Head(sorted)[2] >= item[2]
         THEN <<Head(sorted)>> \o InsertDesc(Tail(sorted), item)
         ELSE <<item>> \o sorted

RECURSIVE SortedDesc(_)
SortedDesc(counts) ==
    IF counts = <<>> THEN <<>>
    ELSE InsertDesc(SortedDesc(SubSeq(counts, 1, Len(counts) - 1)),
                    counts[Len(counts)])

RECURSIVE SumCounts(_)
SumCounts(counts) ==
    IF counts = <<>> THEN 0 ELSE Head(counts)[2] + SumCounts(Tail(counts))

RECURSIVE SumOf(_, _)
SumOf(counts, emotions) ==
    IF emotions = <<>> THEN 0
    ELSE CountOf(counts, Head(emotions)) + SumOf(counts, Tail(emotions))

\* f"{positive / total * 100:.1f}", in tenths of a percent (no tie at a
\* half tenth occurs for totals below 16)
PctTenths(part, total) ==
    IF total > 0 THEN (2000 * part + total) \div (2 * total) ELSE 0

\* target_emotions[0]: the first literal, in the order of the literal list,
\* that the question contains
RECURSIVE FirstTarget(_, _)
FirstTarget(q, literals) ==
    IF literals = <<>> THEN "none"
    ELSE IF Contains(q, Head(literals)) THEN Head(literals)
    ELSE FirstTarget(q, Tail(literals))

\* every answer is a record of one shape; the fields a sentence does not
\* print keep their defaults
Ans(kind) ==
    [kind |-> kind, emotion |-> "", n |-> 0, summary |-> <<>>, user |-> ""]

\* the chain with the Recent test moved above the MostCommon test
IntentRecentFirst(q) ==
    IF ContainsAny(q, {"recent", "latest", "last"}) THEN "Recent"
    ELSE IF ContainsAny(q, {"most", "common", "frequent"}) THEN "MostCommon"
    ELSE IF ContainsAny(q, {"pattern", "trend"}) THEN "Pattern"
    ELSE IF \E i \in 1..Len(EmotionLiterals) : Contains(q, EmotionLiterals[i])
         THEN "SpecificEmotion"
    ELSE IF ContainsAny(q, {"feel", "emotion", "mood"}) THEN "GeneralMood"
    ELSE IF ContainsAny(q, {"struggling", "concern", "negative"}) THEN "Negative"
    ELSE IF ContainsAny(q, {"team", "department", "organizational"})
         THEN "GroupHealth"
    ELSE "Generic"

\* the if/elif chain over q_lower, first match wins
Intent(q) ==
    IF ContainsAny(q, {"most", "common", "frequent"}) THEN "MostCommon"
    ELSE IF ContainsAny(q, {"recent", "latest", "last"}) THEN "Recent"
    ELSE IF ContainsAny(q, {"pattern", "trend"}) THEN "Pattern"
    ELSE IF \E i \in 1..Len(EmotionLiterals) : Contains(q, EmotionLiterals[i])
         THEN "SpecificEmotion"
    ELSE IF ContainsAny(q, {"feel", "emotion", "mood"}) THEN "GeneralMood"
    ELSE IF ContainsAny(q, {"struggling", "concern", "negative"}) THEN "Negative"
    ELSE IF ContainsAny(q, {"team", "department", "organizational"})
         THEN "GroupHealth"
    ELSE "Generic"

\* lines 199-265, on a non-empty list of metadatas
Synthesize(metas, q) ==
    LET emotion_counts == EmotionCounts(metas)
        intent == Intent(q)
    IN CASE intent = "MostCommon" ->
              LET most == MaxKey(emotion_counts)
              IN [Ans("MostCommon") EXCEPT !.emotion = most,
                                           !.n = CountOf(emotion_counts, most)]
         [] intent = "Recent" ->
              [Ans("Recent") EXCEPT !.emotion = metas[1].emotion,
                                    !.n = metas[1].timestamp]
         [] intent = "Pattern" ->
              [Ans("Pattern") EXCEPT !.summary = emotion_counts,
                                     !.emotion = MaxKey(emotion_counts)]
         [] intent = "SpecificEmotion" ->
              LET target == FirstTarget(q, EmotionLiterals)
                  count == CountOf(emotion_counts, target)
              IN [Ans(IF count > SignificantOver THEN "SpecificSignificant"
                      ELSE "SpecificMinor")
                    EXCEPT !.emotion = target, !.n = count]
         [] intent = "GeneralMood" ->
              [Ans("GeneralMood") EXCEPT !.summary = SortedDesc(emotion_counts),
                                         !.emotion = MaxKey(emotion_counts)]
         [] intent = "Negative" ->
              LET negative_count == SumOf(emotion_counts, NegativeEmotions)
              IN IF negative_count > 0
                 THEN [Ans("NegativeFound") EXCEPT !.n = negative_count]
                 ELSE Ans("NoConcerning")
         [] intent = "GroupHealth" ->
              [Ans("GroupHealth")
                 EXCEPT !.summary = SortedDesc(emotion_counts),
                        !.n = PctTenths(CountOf(emotion_counts, "happy")
                                          + CountOf(emotion_counts, "neutral"),
                                        SumCounts(emotion_counts))]
         [] OTHER ->
              [Ans("Generic") EXCEPT !.summary = SortedDesc(emotion_counts),
                                     !.emotion = MaxKey(emotion_counts)]

\* the filter giving way to the unfiltered metas when it matches nothing
AnswerFromAnyActor(metas, q, user_id) ==
    IF metas = <<>> THEN Ans("NoDataToQuery")
    ELSE IF user_id # NoUser
         THEN LET filtered_metas == FilterUser(metas, user_id)
              IN IF filtered_metas # <<>> THEN Synthesize(filtered_metas, q)
                 ELSE Synthesize(metas, q)
         ELSE Synthesize(metas, q)

\* lines 188-265: the no-data check, the user filter, then the synthesizer
AnswerFrom(metas, q, user_id) ==
    IF metas = <<>> THEN Ans("NoDataToQuery")
    ELSE IF user_id # NoUser
         THEN LET filtered_metas == FilterUser(metas, user_id)
              IN IF filtered_metas # <<>> THEN Synthesize(filtered_metas, q)
                 ELSE [Ans("NoDataForUser") EXCEPT !.user = user_id]
         ELSE Synthesize(metas, q)

(***************************************************************************)
(* api_server.EmotionRAG: construction and build_from_database.            *)
(***************************************************************************)
\* the places of build_from_database at which a backend call can raise
Fails == {"ok", "store", "delete", "create", "add"}

\* metas of lines 137-143, one per record, 'id': i
RECURSIVE DocsFrom(_, _)
DocsFrom(records, i) ==
    IF records = <<>> THEN <<>>
    ELSE << [emotion |-> Head(records).emotion,
             user_id |-> Head(records).user_id,
             timestamp |-> Head(records).timestamp,
             confidence |-> Head(records).confidence,
             id |-> i] >> \o DocsFrom(Tail(records), i + 1)

Docs(records) == DocsFrom(records, 0)

\* build_from_database adding the batch to the collection it finds,
\* without dropping it first
BuildWithoutDrop(fail) ==
    LET mood == get_mood_records(NoUser, CacheCap)
        kept == [cache |-> records_cache, collection |-> collection,
                 index |-> index, ret |-> Len(records_cache) > 0, loaded |-> 0]
    IN IF fail = "store" THEN kept
       ELSE IF mood = <<>>
       THEN [kept EXCEPT !.cache = <<>>, !.ret = FALSE]
       ELSE IF ~(embedder /\ chroma)
       THEN [kept EXCEPT !.cache = mood, !.ret = TRUE, !.loaded = Len(mood)]
       ELSE LET cached == [kept EXCEPT !.cache = mood, !.ret = TRUE,
                                       !.loaded = Len(mood)]
            IN IF fail \in {"delete", "create", "add"} THEN cached
               ELSE [cached EXCEPT !.collection = "live",
                                   !.index = index \o Docs(mood)]

\* build_from_database putting the rows it read in front of the cache it
\* holds instead of replacing it
BuildAppending(fail) ==
    LET mood == get_mood_records(NoUser, CacheCap)
        kept == [cache |-> records_cache, collection |-> collection,
                 index |-> index, ret |-> Len(records_cache) > 0, loaded |-> 0]
        grown == [kept EXCEPT !.cache = mood \o records_cache, !.ret = TRUE,
                              !.loaded = Len(mood)]
    IN IF fail = "store" THEN kept
       ELSE IF mood = <<>>
       THEN [kept EXCEPT !.cache = <<>>, !.ret = FALSE]
       ELSE IF ~(embedder /\ chroma) THEN grown
       ELSE IF fail \in {"delete", "create", "add"} THEN grown
       ELSE [grown EXCEPT !.collection = "live", !.index = Docs(mood)]

\* build_from_database, lines 92-156: the engine fields after the call and
\* its return value, when the backend call named by `fail` raises
BuildResult(fail) ==
    LET mood == get_mood_records(NoUser, CacheCap)
        kept == [cache |-> records_cache, collection |-> collection,
                 index |-> index, ret |-> Len(records_cache) > 0, loaded |-> 0]
    IN IF fail = "store" THEN kept
       ELSE IF mood = <<>>
       THEN [kept EXCEPT !.cache = <<>>, !.ret = FALSE]
       ELSE IF ~(embedder /\ chroma)
       THEN [kept EXCEPT !.cache = mood, !.ret = TRUE, !.loaded = Len(mood)]
       ELSE LET survives == collection = "live" /\ fail = "delete"
                handle == IF collection = "live" /\ fail # "delete"
                          THEN "dead" ELSE collection
                left == IF survives THEN index ELSE <<>>
                cached == [kept EXCEPT !.cache = mood, !.ret = TRUE,
                                       !.loaded = Len(mood)]
            IN IF survives \/ fail = "create"
               \* create_collection raises: the name exists, or the backend fails
               THEN [cached EXCEPT !.collection = handle, !.index = left]
               ELSE IF fail = "add"
               THEN [cached EXCEPT !.collection = "live", !.index = <<>>]
               ELSE [cached EXCEPT !.collection = "live", !.index = Docs(mood)]

\* POST /api/emotion-insights/rebuild
Rebuild(fail) ==
    LET b == BuildResult(fail)
    IN /\ Idle
       /\ records_cache' = b.cache
       /\ collection' = b.collection
       /\ index' = b.index
       /\ built_with' = fail
       /\ last' = [op |-> "rebuild", fail |-> fail, ret |-> b.ret,
                   loaded |-> b.loaded, repeat |-> built_with = fail,
                   cache_before |-> records_cache,
                   collection_before |-> collection, index_before |-> index]
       /\ UNCHANGED <<storeVars, capVars, otherEngines>>

(***************************************************************************)
(* rag_enhanced.EnhancedEmotionRAG.build_from_database.                    *)
(***************************************************************************)
EnhancedBuildResult(fail) ==
    IF fail = "store" THEN [cache |-> <<>>, ret |-> FALSE]
    ELSE LET mood == get_mood_records(NoUser, CacheCap)
         IN [cache |-> mood, ret |-> Len(mood) > 0]

EnhancedBuild(fail) ==
    LET b == EnhancedBuildResult(fail)
    IN /\ Idle
       /\ enhanced_cache' = b.cache
       /\ last' = [op |-> "enhanced_rebuild", fail |-> fail, ret |-> b.ret,
                   cache_before |-> enhanced_cache]
       /\ UNCHANGED <<storeVars, capVars, engineVars, ts_collection, ts_built,
                      appVars>>

(***************************************************************************)
(* The statistics aggregator: rag_enhanced.get_emotion_stats and lines     *)
(* 287-302 of api_server.get_insights.  A quotient a / b of the code is    *)
(* kept as the pair <<a, b>>, a percentage count / total * 100 as          *)
(* <<100 * count, total>>.                                                 *)
(***************************************************************************)
\* the loop of the sums, taken by halves as the loop of the counts is
RECURSIVE ConfidenceSums(_)
ConfidenceSums(records) ==
    IF records = <<>> THEN <<>>
    ELSE IF Len(records) = 1
         THEN AddTo(<<>>, records[1].emotion, records[1].confidence)
    ELSE LET half == Len(records) \div 2
         IN MergeCounts(ConfidenceSums(SubSeq(records, 1, half)),
                        ConfidenceSums(SubSeq(records, half + 1,
                                              Len(records))))

\* {e: count / total * 100 for e, count in emotion_counts.items()}
Distribution(counts, total) ==
    [i \in 1..Len(counts) |-> <<counts[i][1], 100 * counts[i][2], total>>]

\* the confidence sums divided by the number of all records
AveragesOverAll(counts, sums) ==
    [i \in 1..Len(counts) |->
        <<counts[i][1], CountOf(sums, counts[i][1]), SumCounts(counts)>>]

\* {e: confidence_sum[e] / emotion_counts[e] for e in emotion_counts}
Averages(counts, sums) ==
    [i \in 1..Len(counts) |->
        <<counts[i][1], CountOf(sums, counts[i][1]), counts[i][2]>>]

\* the mapping get_emotion_stats returns; {} is the record without fields
NoStats == [x \in {} |-> 0]

get_emotion_stats(cache) ==
    IF cache = <<>> THEN NoStats
    ELSE LET emotion_counts == EmotionCounts(cache)
             confidence_sum == ConfidenceSums(cache)
         IN [total_records |-> Len(cache),
             emotion_counts |-> emotion_counts,
             emotion_distribution |-> Distribution(emotion_counts, Len(cache)),
             average_confidence |-> Averages(emotion_counts, confidence_sum),
             most_common |-> MaxKey(emotion_counts)]

\* GET /api/rag/suggestions: the statistics of the enhanced engine's cache
EnhancedStats ==
    /\ Idle
    /\ last' = [op |-> "enhanced_stats", cache |-> enhanced_cache,
                stats |-> get_emotion_stats(enhanced_cache)]
    /\ UNCHANGED <<storeVars, capVars, engineVars, otherEngines>>

(***************************************************************************)
(* The insight reports: their summary and the rows of the distribution.    *)
(***************************************************************************)
Min(a, b) == IF a <= b THEN a ELSE b

\* int(pct / divisor), pct = count / total * 100
BarUnits(count, total, divisor) == (100 * count) \div (divisor * total)

\* api_server.get_insights, lines 323-327: the lines of the analysis block
\* that depend on the dominant emotion, by name
AnalysisNotes(most_common) ==
    IF most_common \in {"happy", "neutral", "calm", "energetic"}
    THEN {"balanced"}
    ELSE IF most_common \in {"sad", "angry", "fear", "disgusted", "stressed"}
    THEN {"warning", "support"}
    ELSE {}

\* emotion_rag_app.get_insights, lines 383-387
AppAnalysisNotes(most_common) ==
    IF most_common \in {"happy", "neutral"} THEN {"balanced"}
    ELSE IF most_common \in {"sad", "angry", "fear"}
    THEN {"warning", "support"}
    ELSE {}

\* lines 330-334: emotion_variety = len(emotion_counts)
VarietyNotes(emotion_variety) ==
    IF emotion_variety >= HighVariety THEN {"high_variety"}
    ELSE IF emotion_variety <= LowVariety THEN {"stable"}
    ELSE {}

\* the confidence notes with the upper boundary excluded
ConfidenceNotesStrict(sum, count) ==
    IF sum > HighConfidence * count THEN {"high_confidence"}
    ELSE IF sum < LowConfidence * count THEN {"low_confidence"}
    ELSE {}

\* lines 337-341: avg_confidence = sum / count compared with 85 and 70
ConfidenceNotes(sum, count) ==
    IF sum >= HighConfidence * count THEN {"high_confidence"}
    ELSE IF sum < LowConfidence * count THEN {"low_confidence"}
    ELSE {}

\* api_server.get_insights, lines 287-341
InsightsReport(records) ==
    LET total_records == Len(records)
        emotion_counts == EmotionCounts(records)
        confidence_sum == ConfidenceSums(records)
        sorted == SortedDesc(emotion_counts)
    IN [total_records |-> total_records,
        emotion_counts |-> emotion_counts,
        most_common |-> MaxKey(emotion_counts),
        analysis |-> AnalysisNotes(MaxKey(emotion_counts))
                       \cup VarietyNotes(Len(emotion_counts))
                       \cup ConfidenceNotes(SumCounts(confidence_sum),
                                            SumCounts(emotion_counts)),
        avg_confidences |-> Averages(emotion_counts, confidence_sum),
        rows |-> [i \in 1..Len(sorted) |->
                    [emotion |-> sorted[i][1],
                     count |-> sorted[i][2],
                     pct |-> <<100 * sorted[i][2], total_records>>,
                     bar |-> Min(BarUnits(sorted[i][2], total_records,
                                          BarDivisor), BarCap)]]]

\* rag_enhanced.get_insights, lines 219-246
EnhancedReport(cache) ==
    LET stats == get_emotion_stats(cache)
    IN IF stats = NoStats THEN NoStats
       ELSE LET sorted == SortedDesc(stats.emotion_counts)
            IN [total_records |-> stats.total_records,
                most_common |-> stats.most_common,
                unique |-> Len(stats.emotion_counts),
                rows |-> [i \in 1..Len(sorted) |->
                            [emotion |-> sorted[i][1],
                             count |-> sorted[i][2],
                             pct |-> <<100 * sorted[i][2], stats.total_records>>,
                             bar |-> BarUnits(sorted[i][2], stats.total_records,
                                              EnhancedBarDivisor)]]]

\* GET /api/rag/insights
EnhancedInsights ==
    /\ Idle
    /\ last' = [op |-> "enhanced_insights", cache |-> enhanced_cache,
                report |-> EnhancedReport(enhanced_cache)]
    /\ UNCHANGED <<storeVars, capVars, engineVars, otherEngines>>

\* emotion_rag_app.EmotionRAG.get_insights over the history that
\* EmotionDetector.load takes from the database
AppReport(history) ==
    IF history = <<>> THEN NoStats
    ELSE LET counts == EmotionCounts(history)
             sorted == SortedDesc(counts)
         IN [total_records |-> Len(history),
             most_common |-> MaxKey(counts),
             latest |-> history[Len(history)].emotion,
             analysis |-> AppAnalysisNotes(MaxKey(counts))
                            \cup VarietyNotes(Len(counts)),
             rows |-> [i \in 1..Len(sorted) |->
                         [emotion |-> sorted[i][1],
                          count |-> sorted[i][2],
                          pct |-> <<100 * sorted[i][2], Len(history)>>,
                          bar |-> BarUnits(sorted[i][2], Len(history),
                                           AppBarDivisor)]]]

\* the 'insights' command of emotion_rag_app
AppInsights ==
    /\ Idle
    /\ last' = [op |-> "app_insights",
                report |-> AppReport(get_mood_records(NoUser, HistoryLimit))]
    /\ UNCHANGED <<storeVars, capVars, engineVars, otherEngines>>

(***************************************************************************)
(* rag_enhanced.EnhancedEmotionRAG.query_rule_based, the answer of         *)
(* POST /api/rag/enhanced-query while Gemini is not configured.            *)
(***************************************************************************)
\* self.records_cache[-10:]
LastOf(s, n) == IF Len(s) <= n THEN s ELSE SubSeq(s, Len(s) - n + 1, Len(s))

EnhancedWords ==
    {"most", "recent", "trend", "stress", "happy", "hello", "Last"}

EnhancedIntent(q) ==
    IF ContainsAny(q, {"most", "common", "frequent"}) THEN "MostCommon"
    ELSE IF ContainsAny(q, {"recent", "latest", "last"}) THEN "Recent"
    ELSE IF ContainsAny(q, {"trend", "pattern", "change"}) THEN "Pattern"
    ELSE IF ContainsAny(q, {"stress", "anxiety", "worry"}) THEN "Negative"
    ELSE IF ContainsAny(q, {"happy", "positive", "good"}) THEN "Positive"
    ELSE "Generic"

query_rule_based(cache, q) ==
    IF cache = <<>> THEN Ans("EnhancedNoData")
    ELSE
    LET stats == get_emotion_stats(cache)
        counts == stats.emotion_counts
        intent == EnhancedIntent(q)
    IN CASE intent = "MostCommon" ->
              [Ans("MostCommon")
                 EXCEPT !.emotion = stats.most_common,
                        !.n = CountOf(counts, stats.most_common),
                        !.summary = <<PctTenths(CountOf(counts, stats.most_common),
                                                stats.total_records)>>]
         [] intent = "Recent" ->
              LET latest == cache[Len(cache)]
              IN [Ans("Recent") EXCEPT !.emotion = latest.emotion,
                                       !.user = latest.user_id,
                                       !.n = latest.timestamp]
         [] intent = "Pattern" ->
              LET emotions_list == LastOf(cache, PatternWindow)
              IN [Ans("Pattern")
                    EXCEPT !.summary = {emotions_list[i].emotion :
                                          i \in 1..Len(emotions_list)}]
         [] intent = "Negative" ->
              [Ans("NegativeFound")
                 EXCEPT !.n = PctTenths(CountOf(counts, "Sad")
                                          + CountOf(counts, "Angry"),
                                        stats.total_records)]
         [] intent = "Positive" ->
              [Ans("Positive")
                 EXCEPT !.n = PctTenths(CountOf(counts, "Happy"),
                                        stats.total_records)]
         [] OTHER ->
              [Ans("Generic")
                 EXCEPT !.summary = Take(SortedDesc(counts), TopShown),
                        !.emotion = stats.most_common,
                        !.n = stats.total_records]

\* query_with_gemini whose except branch passes the error on instead of
\* falling back
EnhancedQueryNoFallback(q) ==
    \E source \in (IF GEMINI_ENABLED /\ genai
                   THEN {"gemini-enhanced", "rule-based-fallback"}
                   ELSE {"rule-based"}) :
       /\ Idle
       /\ last' = [op |-> "enhanced_query", q |-> q, cache |-> enhanced_cache,
                   source |-> source,
                   answer |-> IF source = "gemini-enhanced" THEN Ans("Gemini")
                              ELSE IF source = "rule-based-fallback"
                              THEN Ans("GeminiError")
                              ELSE query_rule_based(enhanced_cache, q)]
       /\ UNCHANGED <<storeVars, capVars, engineVars, otherEngines>>

\* enhanced_query -> query_with_gemini: the text of the Gemini model when
\* it is configured and the call succeeds, else query_rule_based
EnhancedQuery(q) ==
    \E source \in (IF GEMINI_ENABLED /\ genai
                   THEN {"gemini-enhanced", "rule-based-fallback"}
                   ELSE {"rule-based"}) :
       /\ Idle
       /\ last' = [op |-> "enhanced_query", q |-> q, cache |-> enhanced_cache,
                   source |-> source,
                   answer |-> IF source = "gemini-enhanced" THEN Ans("Gemini")
                              ELSE query_rule_based(enhanced_cache, q)]
       /\ UNCHANGED <<storeVars, capVars, engineVars, otherEngines>>

(***************************************************************************)
(* rag_test_server.EmotionRAG.build_from_database: documents are added to  *)
(* the collection made once by initialize(); nothing is dropped.  The rows *)
(* of its table emotion_records are modelled by the rows of mood_records,  *)
(* the row id by the timestamp.                                            *)
(***************************************************************************)
RECURSIVE TsDocs(_)
TsDocs(rows) ==
    IF rows = <<>> THEN <<>>
    ELSE << [id |-> Head(rows).timestamp, user_id |-> Head(rows).user_id,
             emotion |-> Head(rows).emotion] >> \o TsDocs(Tail(rows))

HasId(docs, id) == \E i \in 1..Len(docs) : docs[i].id = id

RECURSIVE WithoutIds(_, _)
WithoutIds(docs, held) ==
    IF docs = <<>> THEN <<>>
    ELSE IF HasId(held, Head(docs).id) THEN WithoutIds(Tail(docs), held)
    ELSE <<Head(docs)>> \o WithoutIds(Tail(docs), held)

\* collection.add(documents, embeddings, metadatas, ids): an id the
\* collection already holds is skipped, or (older backends) the call raises
\* and the except branch logs it
TsAdd(held, docs, dup) ==
    IF dup = "raises" /\ WithoutIds(docs, held) # docs THEN held
    ELSE held \o WithoutIds(docs, held)

TestServerBuildResult(fail, dup) ==
    IF fail = "store" THEN ts_collection
    ELSE TsAdd(ts_collection, TsDocs(Reverse(mood_records)), dup)

\* POST /api/emotion-insights/rebuild of rag_test_server
TestServerBuild(fail, dup) ==
    /\ Idle
    /\ ts_collection' = TestServerBuildResult(fail, dup)
    /\ ts_built' = <<fail, dup>>
    /\ last' = [op |-> "ts_rebuild", fail |-> fail,
                repeat |-> ts_built = <<fail, dup>>,
                collection_before |-> ts_collection]
    /\ UNCHANGED <<storeVars, capVars, engineVars, enhanced_cache, appVars>>

(***************************************************************************)
(* api_server.EmotionRAG.query, lines 158-189: choosing the record set.    *)
(***************************************************************************)
RECURSIVE SubsetsOfSize(_, _)
SubsetsOfSize(S, k) ==
    IF k = 0 THEN {{}}
    ELSE UNION {{T \cup {x} : T \in SubsetsOfSize(S \ {x}, k - 1)} : x \in S}

\* the members of a set of positions, in ascending order
RECURSIVE Ascending(_)
Ascending(S) ==
    IF S = {} THEN <<>>
    ELSE LET m == CHOOSE x \in S : \A y \in S : x <= y
         IN <<m>> \o Ascending(S \ {m})

Pick(docs, positions) == [i \in 1..Len(positions) |-> docs[positions[i]]]

\* collection.query(query_texts=[question], n_results=TopK) that returns:
\* the ranking by embedding distance is not decided by the program, so a
\* result is any min(TopK, n) documents with any one of them ranked first
SearchHits(docs) ==
    IF docs = <<>> THEN {<<>>}
    ELSE LET n == Len(docs)
             over == IF n > TopK THEN n - TopK ELSE 0
         IN UNION {
              { Pick(docs, <<first>> \o Ascending(((1..n) \ dropped) \ {first}))
                  : first \in (1..n) \ dropped }
              : dropped \in SubsetsOfSize(1..n, over) }

\* lines 179-186: metas built from the cached rows
CacheMetas(records) ==
    [i \in 1..Len(records) |->
        [emotion |-> records[i].emotion,
         user_id |-> records[i].user_id,
         timestamp |-> records[i].timestamp,
         confidence |-> records[i].confidence]]

\* the engine fields as they stand, in the shape of BuildResult
Standing ==
    [cache |-> records_cache, collection |-> collection, index |-> index,
     ret |-> TRUE, loaded |-> 0]

\* a query that rebuilds whenever it runs
AlwaysBuilds == TRUE

\* line 161: not self.collection and not self.records_cache
NeedsBuild == collection = "none" /\ records_cache = <<>>

\* the vector hits alone, with no fallback
ScopeOfHits(hits, cache) == hits

\* lines 178-186: the vector hits, or else the cache
ScopeOf(hits, cache) ==
    IF hits # <<>> THEN hits
    ELSE IF cache # <<>> THEN CacheMetas(cache) ELSE <<>>

\* POST /api/emotion-insights/query -> EmotionRAG.query(question, user_id)
Query(q, user_id) ==
    /\ Idle
    /\ IF collection = "unset"
       THEN \* line 161 reads an attribute that __init__ never set
            /\ last' = [op |-> "query", q |-> q, user |-> user_id,
                        started_empty |-> records_cache = <<>>, rebuilds |-> 0,
                        loaded |-> 0, raised |-> TRUE, search |-> "skipped",
                        scope |-> <<>>, answer |-> Ans("AttributeError")]
            /\ UNCHANGED <<storeVars, capVars, engineVars, otherEngines>>
       ELSE \E fail \in (IF NeedsBuild THEN Fails ELSE {"ok"}) :
            LET b == IF NeedsBuild THEN BuildResult(fail) ELSE Standing
                obs == [op |-> "query", q |-> q, user |-> user_id,
                        started_empty |-> records_cache = <<>>,
                        rebuilds |-> IF NeedsBuild THEN 1 ELSE 0,
                        loaded |-> b.loaded, raised |-> FALSE,
                        search |-> "skipped", scope |-> <<>>,
                        answer |-> Ans("NotAvailableYet")]
            IN /\ records_cache' = b.cache
               /\ collection' = b.collection
               /\ index' = b.index
               /\ built_with' = IF NeedsBuild THEN fail ELSE built_with
               /\ UNCHANGED <<storeVars, capVars, otherEngines>>
               /\ IF NeedsBuild /\ ~b.ret
                  THEN last' = obs
                  ELSE IF b.collection # "none" /\ embedder
                  THEN \/ \* the vector search raises
                          /\ last' = [obs EXCEPT
                               !.search = "raised",
                               !.scope = ScopeOf(<<>>, b.cache),
                               !.answer = AnswerFrom(ScopeOf(<<>>, b.cache),
                                                     q, user_id)]
                       \/ \* the vector search returns
                          /\ b.collection = "live"
                          /\ \E hits \in SearchHits(b.index) :
                               last' = [obs EXCEPT
                                 !.search = IF hits = <<>> THEN "empty" ELSE "hits",
                                 !.scope = ScopeOf(hits, b.cache),
                                 !.answer = AnswerFrom(ScopeOf(hits, b.cache),
                                                       q, user_id)]
                  ELSE last' = [obs EXCEPT
                         !.scope = ScopeOf(<<>>, b.cache),
                         !.answer = AnswerFrom(ScopeOf(<<>>, b.cache), q, user_id)]

\* GET /api/emotion-insights/auto-insights -> EmotionRAG.get_insights(user_id)
GetInsights(user_id) ==
    \E fail \in (IF records_cache = <<>> THEN Fails ELSE {"ok"}) :
    \E read \in {"ok", "store"} :
    LET b == IF records_cache = <<>> THEN BuildResult(fail) ELSE Standing
        records == get_mood_records(user_id, InsightsLimit)
        counts == EmotionCounts(records)
    IN /\ Idle
       /\ records_cache' = b.cache
       /\ collection' = b.collection
       /\ index' = b.index
       /\ built_with' = IF records_cache = <<>> THEN fail ELSE built_with
       /\ UNCHANGED <<storeVars, capVars, otherEngines>>
       /\ last' = [op |-> "insights", user |-> user_id,
                   started_empty |-> records_cache = <<>>,
                   rebuilds |-> IF records_cache = <<>> THEN 1 ELSE 0,
                   loaded |-> b.loaded, raised |-> FALSE,
                   report |-> IF read = "ok" /\ records # <<>>
                              THEN InsightsReport(records) ELSE NoStats,
                   answer |->
                     IF read = "store" THEN Ans("ErrorGeneratingInsights")
                     ELSE IF records = <<>> THEN Ans("NoDataYet")
                     ELSE [Ans("Report") EXCEPT !.n = Len(records),
                                                !.emotion = MaxKey(counts),
                                                !.summary = SortedDesc(counts)]]

(***************************************************************************)
(* The same question put to two server processes that were started on the  *)
(* same store, so that their engines hold equal caches.                    *)
(***************************************************************************)
\* list(set(emotions_list)): a set of strings is iterated in the order of
\* the strings' hashes, which are salted anew in every process
Orderings(S) ==
    {order \in [1..Cardinality(S) -> S] :
        \A e \in S : \E i \in 1..Cardinality(S) : order[i] = e}

\* the strings query_rule_based can return: lines 190-193 join the
\* emotions in the order of list(set(...))
RuleBasedStrings(cache, q) ==
    LET answer == query_rule_based(cache, q)
    IN IF answer.kind = "Pattern"
       THEN {[answer EXCEPT !.summary = order] :
                order \in Orderings(answer.summary)}
       ELSE {answer}

\* POST /api/rag/enhanced-query on both processes, Gemini not configured
EnhancedQueryTwice(q) ==
    /\ Idle
    /\ ~(GEMINI_ENABLED /\ genai)
    /\ \E first \in RuleBasedStrings(enhanced_cache, q),
          second \in RuleBasedStrings(enhanced_cache, q) :
          last' = [op |-> "enhanced_query_twice", q |-> q,
                   cache |-> enhanced_cache,
                   first |-> first, second |-> second]
    /\ UNCHANGED <<storeVars, capVars, engineVars, otherEngines>>

\* POST /api/emotion-insights/query on both processes, neither with an
\* embedder: lines 178-265 on the cache
QueryTwice(q, user_id) ==
    /\ Idle
    /\ ~embedder
    /\ records_cache # <<>>
    /\ last' = [op |-> "query_twice", q |-> q, user |-> user_id,
                cache |-> records_cache,
                first |-> AnswerFrom(ScopeOf(<<>>, records_cache), q, user_id),
                second |-> AnswerFrom(ScopeOf(<<>>, records_cache), q, user_id)]
    /\ UNCHANGED <<storeVars, capVars, engineVars, otherEngines>>

(***************************************************************************)
(* emotion_rag_app.EmotionRAG: build and query.  The history of the        *)
(* detector is the listing of the store at the time of the command.        *)
(***************************************************************************)
\* the places of build at which a backend call can raise
AppFails == {"ok", "create", "add"}

\* metas of lines 283-287, one per record of the history
RECURSIVE AppDocsFrom(_, _)
AppDocsFrom(history, i) ==
    IF history = <<>> THEN <<>>
    ELSE << [emotion |-> Head(history).emotion,
             timestamp |-> Head(history).timestamp,
             id |-> i] >> \o AppDocsFrom(Tail(history), i + 1)

\* build, lines 245-297: the collection after the call, the value returned
\* and whether the call raised
AppBuildResult(fail) ==
    LET history == get_mood_records(NoUser, HistoryLimit)
    IN IF history = <<>>
       THEN [collection |-> app_collection, index |-> app_index,
             ret |-> FALSE, raised |-> FALSE]
       ELSE IF fail = "create"
       \* the old collection is deleted, self.collection keeps its handle
       THEN [collection |-> IF app_collection = "live" THEN "dead"
                            ELSE app_collection,
             index |-> <<>>, ret |-> FALSE, raised |-> TRUE]
       ELSE IF fail = "add"
       THEN [collection |-> "live", index |-> <<>>,
             ret |-> FALSE, raised |-> TRUE]
       ELSE [collection |-> "live", index |-> AppDocsFrom(history, 0),
             ret |-> TRUE, raised |-> FALSE]

\* the 'rebuild' command of interactive_mode
AppBuild(fail) ==
    LET b == AppBuildResult(fail)
    IN /\ Idle
       /\ app_collection' = b.collection
       /\ app_index' = b.index
       /\ last' = [op |-> "app_rebuild", fail |-> fail, ret |-> b.ret,
                   raised |-> b.raised]
       /\ UNCHANGED <<storeVars, capVars, engineVars, enhanced_cache,
                      ts_collection, ts_built>>

\* collection.query(query_texts=[question], n_results=AppTopK) that returns
AppSearchHits(docs) ==
    IF docs = <<>> THEN {<<>>}
    ELSE LET n == Len(docs)
             over == IF n > AppTopK THEN n - AppTopK ELSE 0
         IN UNION {
              { Pick(docs, <<first>> \o Ascending(((1..n) \ dropped) \ {first}))
                  : first \in (1..n) \ dropped }
              : dropped \in SubsetsOfSize(1..n, over) }

\* the if/elif chain of lines 315-346
AppIntent(q) ==
    IF ContainsAny(q, {"most", "common", "frequent"}) THEN "MostCommon"
    ELSE IF ContainsAny(q, {"recent", "latest", "last"}) THEN "Recent"
    ELSE IF ContainsAny(q, {"pattern", "trend"}) THEN "Pattern"
    ELSE IF ContainsAny(q, {"happy", "sad", "angry"}) THEN "SpecificEmotion"
    ELSE IF ContainsAny(q, {"feel", "emotion"}) THEN "GeneralMood"
    ELSE "Generic"

\* lines 308-346 on the metadatas of the search result; max() of an empty
\* mapping raises ValueError, metas[0] of an empty list IndexError
AppAnswer(metas, q) ==
    LET emotion_counts == EmotionCounts(metas)
        intent == AppIntent(q)
    IN CASE intent = "MostCommon" ->
              IF emotion_counts = <<>> THEN Ans("ValueError")
              ELSE LET most == MaxKey(emotion_counts)
                   IN [Ans("MostCommon")
                         EXCEPT !.emotion = most,
                                !.n = CountOf(emotion_counts, most)]
         [] intent = "Recent" ->
              IF metas = <<>> THEN Ans("IndexError")
              ELSE [Ans("Recent") EXCEPT !.emotion = metas[1].emotion,
                                         !.n = metas[1].timestamp]
         [] intent = "Pattern" ->
              IF emotion_counts = <<>> THEN Ans("ValueError")
              ELSE [Ans("Pattern") EXCEPT !.summary = emotion_counts,
                                          !.emotion = MaxKey(emotion_counts)]
         [] intent = "SpecificEmotion" ->
              LET target == FirstTarget(q, EmotionLiterals)
                  count == CountOf(emotion_counts, target)
              IN [Ans(IF count > SignificantOver THEN "SpecificSignificant"
                      ELSE "SpecificMinor")
                    EXCEPT !.emotion = target, !.n = count]
         [] intent = "GeneralMood" ->
              IF emotion_counts = <<>> THEN Ans("ValueError")
              ELSE [Ans("GeneralMood")
                      EXCEPT !.summary = SortedDesc(emotion_counts),
                             !.emotion = MaxKey(emotion_counts)]
         [] OTHER ->
              IF emotion_counts = <<>> THEN Ans("ValueError")
              ELSE [Ans("Generic") EXCEPT !.summary = emotion_counts,
                                          !.emotion = MaxKey(emotion_counts)]

\* a question typed at the prompt of interactive_mode -> EmotionRAG.query;
\* an exception is caught and printed by the command loop
AppQuery(q) ==
    /\ Idle
    /\ UNCHANGED <<storeVars, capVars, engineVars, otherEngines>>
    /\ IF app_collection = "none"
       THEN last' = [op |-> "app_query", q |-> q, scope |-> <<>>,
                     raised |-> FALSE, answer |-> Ans("BuildFirst")]
       ELSE \/ \* the search raises
               last' = [op |-> "app_query", q |-> q, scope |-> <<>>,
                        raised |-> TRUE, answer |-> Ans("SearchError")]
            \/ \* the search returns
               /\ app_collection = "live"
               /\ \E hits \in AppSearchHits(app_index) :
                     LET answer == AppAnswer(hits, q)
                     IN last' = [op |-> "app_query", q |-> q, scope |-> hits,
                                 raised |-> answer.kind
                                              \in {"ValueError", "IndexError"},
                                 answer |-> answer]

(***************************************************************************)
(* rag_enhanced: the Gemini configuration.  A key is a sequence of         *)
(* characters; " " stands for any whitespace character.                    *)
(***************************************************************************)
KeyChars == {" ", "a"}

RECURSIVE KeysUpTo(_)
KeysUpTo(n) ==
    IF n = 0 THEN {<<>>}
    ELSE LET shorter == KeysUpTo(n - 1)
         IN shorter \cup {Append(k, c) : k \in shorter, c \in KeyChars}

\* str.lstrip() and str.strip()
RECURSIVE LStrip(_)
LStrip(key) ==
    IF key = <<>> THEN <<>>
    ELSE IF Head(key) = " " THEN LStrip(Tail(key)) ELSE key

Strip(key) == Reverse(LStrip(Reverse(LStrip(key))))

\* lines 23-32, at import: what genai.configure does with the key of the
\* environment is not decided here
GeminiAtImport(lib, envKey, configured) ==
    /\ genai = lib
    /\ GEMINI_API_KEY = envKey
    /\ GEMINI_ENABLED = (envKey # <<>> /\ lib /\ configured)

\* GEMINI_API_KEY not in the environment, google-generativeai not installed
NoGemini == GeminiAtImport(FALSE, <<>>, FALSE)

\* what genai.configure(api_key=...) does
ConfigureOutcomes == {"ok", "ValueError", "Exception"}

\* set_gemini_api_key testing the key for emptiness only
SetKeyUnstripped(api_key, outcome) ==
    LET kept == [ret |-> FALSE, enabled |-> GEMINI_ENABLED,
                 key |-> GEMINI_API_KEY]
    IN IF api_key = <<>> THEN kept
       ELSE IF ~genai THEN kept
       ELSE IF outcome = "ok"
       THEN [ret |-> TRUE, enabled |-> TRUE, key |-> Strip(api_key)]
       ELSE [ret |-> FALSE, enabled |-> FALSE, key |-> Strip(api_key)]

\* set_gemini_api_key, lines 272-299: the value returned and the globals
\* after the call
SetKeyResult(api_key, outcome) ==
    LET kept == [ret |-> FALSE, enabled |-> GEMINI_ENABLED,
                 key |-> GEMINI_API_KEY]
    IN IF api_key = <<>> \/ Strip(api_key) = <<>> THEN kept
       ELSE IF ~genai THEN kept
       ELSE IF outcome = "ok"
       THEN [ret |-> TRUE, enabled |-> TRUE, key |-> Strip(api_key)]
       ELSE [ret |-> FALSE, enabled |-> FALSE, key |-> Strip(api_key)]

\* a call of rag_enhanced.set_gemini_api_key(api_key)
SetGeminiKey(api_key, outcome) ==
    LET r == SetKeyResult(api_key, outcome)
    IN /\ Idle
       /\ GEMINI_ENABLED' = r.enabled
       /\ GEMINI_API_KEY' = r.key
       /\ last' = [op |-> "set_gemini_api_key", key |-> api_key,
                   success |-> r.ret, status |-> 0,
                   enabled_before |-> GEMINI_ENABLED,
                   key_before |-> GEMINI_API_KEY]
       /\ UNCHANGED <<storeVars, embedder, chroma, genai, engineVars,
                      otherEngines>>

\* POST /api/rag/configure-gemini, lines 1246-1276
ConfigureGemini(api_key, outcome) ==
    LET rejected == api_key = <<>> \/ Strip(api_key) = <<>>
        r == IF rejected
             THEN [ret |-> FALSE, enabled |-> GEMINI_ENABLED,
                   key |-> GEMINI_API_KEY]
             ELSE SetKeyResult(Strip(api_key), outcome)
    IN /\ Idle
       /\ GEMINI_ENABLED' = r.enabled
       /\ GEMINI_API_KEY' = r.key
       /\ last' = [op |-> "configure_gemini", key |-> api_key,
                   success |-> r.ret,
                   status |-> IF rejected THEN 400 ELSE 200,
                   enabled_before |-> GEMINI_ENABLED,
                   key_before |-> GEMINI_API_KEY]
       /\ UNCHANGED <<storeVars, embedder, chroma, genai, engineVars,
                      otherEngines>>

(***************************************************************************)
(* The engine on a fresh database, driven by the server's requests.        *)
(***************************************************************************)
LifecycleQuestions == {<<>>, <<"most">>, <<"recent">>, <<"team">>}

\* EmotionRAG.__init__, lines 64-90, after startup on an empty database
Constructed ==
    /\ \/ embedder = TRUE /\ chroma = TRUE /\ collection = "none"
       \/ \* SentenceTransformer missing or its download failed
          embedder = FALSE /\ chroma = TRUE /\ collection = "none"
       \/ \* chromadb.Client() raised: the except branch sets no collection
          embedder = FALSE /\ chroma = FALSE /\ collection = "unset"
    /\ index = <<>>
    /\ records_cache = <<>>
    /\ enhanced_cache = <<>>
    /\ ts_collection = <<>>
    /\ built_with = "ok"
    /\ ts_built = <<"stale", "">>
    /\ app_collection = "none"
    /\ app_index = <<>>
    /\ last = NoResponse

Init ==
    /\ mood_records = <<>>
    /\ backup = <<>>
    /\ clock = 0
    /\ NoTasks
    /\ Constructed
    /\ NoGemini

Next ==
    \/ \E u \in Actors, e \in Emotions : SaveMood(u, e, SomeConfidence)
    \/ RestoreFromBackup
    \/ \E fail \in Fails : Rebuild(fail)
    \/ \E q \in LifecycleQuestions, u \in Actors \cup {NoUser} : Query(q, u)
    \/ \E u \in Actors \cup {NoUser} : GetInsights(u)
    \/ Respond

Spec == Init /\ [][Next]_vars

(***************************************************************************)
(* The rebuilds of both engines over the same store.                       *)
(***************************************************************************)
NextRebuilds ==
    \/ \E u \in Actors, e \in Emotions : SaveMood(u, e, SomeConfidence)
    \/ RestoreFromBackup
    \/ \E fail \in Fails : Rebuild(fail)
    \/ \E fail \in {"ok", "store"} : EnhancedBuild(fail)
    \/ Respond

SpecRebuilds == Init /\ [][NextRebuilds]_vars

(***************************************************************************)
(* The index rebuilds of api_server and of rag_test_server.                *)
(***************************************************************************)
NextIndexes ==
    \/ \E u \in Actors, e \in Emotions : SaveMood(u, e, SomeConfidence)
    \/ RestoreFromBackup
    \/ \E fail \in Fails : Rebuild(fail)
    \/ \E fail \in {"ok", "store"}, dup \in {"skips", "raises"} :
          TestServerBuild(fail, dup)
    \/ Respond

SpecIndexes == Init /\ [][NextIndexes]_vars

(***************************************************************************)
(* The server started on a database that already holds records: the       *)
(* startup event has built the cache (and, with an embedder, the index).   *)
(***************************************************************************)
RECURSIVE StoresUpTo(_)
StoresUpTo(n) ==
    IF n = 0 THEN {<<>>}
    ELSE LET shorter == StoresUpTo(n - 1)
         IN shorter \cup
            { Append(st, [emotion |-> e, user_id |-> u, timestamp |-> n,
                          confidence |-> SomeConfidence])
                : st \in {x \in shorter : Len(x) = n - 1},
                  e \in Emotions, u \in Actors }

StartedEngines(store, withEmbedder) ==
    /\ mood_records = store
    /\ backup = store
    /\ clock = Len(store)
    /\ NoTasks
    /\ embedder = withEmbedder
    /\ chroma = TRUE
    /\ records_cache = Reverse(store)
    /\ collection = IF withEmbedder /\ store # <<>> THEN "live" ELSE "none"
    /\ index = IF withEmbedder THEN Docs(Reverse(store)) ELSE <<>>
    /\ enhanced_cache = Reverse(store)
    /\ ts_collection = <<>>
    /\ built_with = "ok"
    /\ ts_built = <<"stale", "">>
    /\ app_collection = "none"
    /\ app_index = <<>>
    /\ last = NoResponse

StartedOn(store, withEmbedder) ==
    /\ StartedEngines(store, withEmbedder)
    /\ NoGemini

\* questions of at most two words
SynthQuestions ==
    {<<>>} \cup {<<w>> : w \in Vocabulary}
           \cup {<<v, w>> : v \in Vocabulary, w \in Vocabulary}

EnhancedQuestions ==
    {<<w>> : w \in EnhancedWords}
        \cup {<<v, w>> : v \in EnhancedWords, w \in EnhancedWords}

InitSynth == \E store \in StoresUpTo(MaxMetas) : StartedOn(store, FALSE)

NextSynth ==
    \/ \E q \in SynthQuestions, u \in Actors \cup {NoUser} : Query(q, u)
    \/ \E q \in EnhancedQuestions : EnhancedQuery(q)
    \/ Respond

\* the cache-only engine over every record set and question in the bounds
SpecSynth == InitSynth /\ [][NextSynth]_vars

\* a store of TopK + BigExtra records: `happy` of them happy and the rest
\* sad, the record at position `other` (if any) of the second actor
BigStore(happy, other) ==
    [i \in 1..(TopK + BigExtra) |->
        [emotion |-> IF i <= happy THEN "happy" ELSE "sad",
         user_id |-> IF i = other THEN "u2" ELSE "u1",
         confidence |-> SomeConfidence,
         timestamp |-> i]]

InitTopK ==
    \E happy \in 0..(TopK + BigExtra), other \in 0..(TopK + BigExtra) :
        StartedOn(BigStore(happy, other), TRUE)

NextTopK ==
    \/ \E q \in LifecycleQuestions, u \in Actors \cup {NoUser} : Query(q, u)
    \/ Respond

\* the full-capability engine over stores larger than the search's top-K
SpecTopK == InitTopK /\ [][NextTopK]_vars

\* a store of n records, the first `happy` of them happy and the rest sad,
\* with confidence c1 at the odd and c2 at the even positions
StatsStore(n, happy, c1, c2) ==
    [i \in 1..n |->
        [emotion |-> IF i <= happy THEN "happy" ELSE "sad",
         user_id |-> IF i = 1 THEN "u2" ELSE "u1",
         confidence |-> IF i % 2 = 1 THEN c1 ELSE c2,
         timestamp |-> i]]

InitStats ==
    \E n \in 0..MaxStats, c1 \in Confidences, c2 \in Confidences :
        \E happy \in 0..n : StartedOn(StatsStore(n, happy, c1, c2), FALSE)

NextStats ==
    \/ EnhancedStats
    \/ EnhancedInsights
    \/ AppInsights
    \/ \E u \in Actors \cup {NoUser} : GetInsights(u)
    \/ Respond

\* the aggregator and the report generators over stores of up to MaxStats
\* records
SpecStats == InitStats /\ [][NextStats]_vars

InitGemini ==
    /\ mood_records = <<>>
    /\ backup = <<>>
    /\ clock = 0
    /\ NoTasks
    /\ Constructed
    /\ \E lib \in BOOLEAN, envKey \in {<<>>, <<"a">>}, configured \in BOOLEAN :
          GeminiAtImport(lib, envKey, configured)

NextGemini ==
    \/ \E key \in KeysUpTo(MaxKeyLen), outcome \in ConfigureOutcomes :
          SetGeminiKey(key, outcome)
    \/ \E key \in KeysUpTo(MaxKeyLen), outcome \in ConfigureOutcomes :
          ConfigureGemini(key, outcome)
    \/ \E q \in {<<"most">>, <<"hello">>} : EnhancedQuery(q)
    \/ Respond

\* the Gemini configuration under every key of up to MaxKeyLen characters
SpecGemini == InitGemini /\ [][NextGemini]_vars

NextTasks ==
    \/ \E u \in Actors : CreateTask(u)
    \/ \E id \in 1..MaxTasks, u \in {"admin", "u1", "nobody", NoUser} :
          DeleteTask(id, u)
    \/ RestoreFromBackup
    \/ Respond

\* the tasks table under the requests of every kind of caller
SpecTasks == Init /\ [][NextTasks]_vars

InitFallback ==
    \E store \in StoresUpTo(MaxClock) :
    \E lib \in BOOLEAN, envKey \in {<<>>, <<"a">>}, configured \in BOOLEAN :
        /\ StartedEngines(store, FALSE)
        /\ GeminiAtImport(lib, envKey, configured)

NextFallback ==
    \/ \E q \in {<<w>> : w \in EnhancedWords} : EnhancedQuery(q)
    \/ \E fail \in {"ok", "store"} : EnhancedBuild(fail)
    \/ \E outcome \in ConfigureOutcomes : ConfigureGemini(<<"a">>, outcome)
    \/ Respond

\* the enhanced query with and without Gemini over stores of up to
\* MaxClock records
SpecFallback == InitFallback /\ [][NextFallback]_vars

NextTwins ==
    \/ \E q \in SynthQuestions, u \in Actors \cup {NoUser} : QueryTwice(q, u)
    \/ \E q \in EnhancedQuestions : EnhancedQueryTwice(q)
    \/ Respond

\* two processes over every record set and question in the bounds
SpecTwins == InitSynth /\ [][NextTwins]_vars

\* a store of n records, every seventh of them sad and of the second actor
CapStore(n) ==
    [i \in 1..n |->
        [emotion |-> IF i % 7 = 0 THEN "sad" ELSE "happy",
         user_id |-> IF i % 7 = 0 THEN "u2" ELSE "u1",
         confidence |-> SomeConfidence,
         timestamp |-> i]]

\* the engine constructed without an embedder on a database that holds
\* about CacheCap records, before the first rebuild; the backup file is the
\* one written at the latest BackupEvery-th record
InitCap ==
    \E n \in (CacheCap - 1)..(CacheCap + CapExtra) :
        /\ mood_records = CapStore(n)
        /\ backup = CapStore((n \div BackupEvery) * BackupEvery)
        /\ clock = n
        /\ NoTasks
        /\ embedder = FALSE
        /\ chroma = TRUE
        /\ collection = "none"
        /\ index = <<>>
        /\ records_cache = <<>>
        /\ enhanced_cache = <<>>
        /\ ts_collection = <<>>
        /\ built_with = "stale"
        /\ ts_built = <<"stale", "">>
        /\ app_collection = "none"
        /\ app_index = <<>>
        /\ NoGemini
        /\ last = NoResponse

NextCap ==
    \/ RestoreFromBackup
    \/ \E fail \in Fails : Rebuild(fail)
    \/ \E u \in Actors \cup {NoUser} : Query(<<"recent">>, u)
    \/ \E u \in Actors \cup {NoUser} : GetInsights(u)
    \/ Respond

\* the record cache over stores at and above its cap
SpecCap == InitCap /\ [][NextCap]_vars

AppQuestions ==
    {<<"most">>, <<"recent">>, <<"trend">>, <<"happy">>, <<"emotion">>,
     <<"hello">>}

NextAnswers ==
    \/ \E e \in Emotions : SaveMood("u1", e, SomeConfidence)
    \/ \E q \in LifecycleQuestions : Query(q, NoUser)
    \/ \E fail \in {"ok", "store"} : EnhancedBuild(fail)
    \/ \E q \in {<<"most">>, <<"recent">>, <<"hello">>} : EnhancedQuery(q)
    \/ \E fail \in AppFails : AppBuild(fail)
    \/ \E q \in AppQuestions : AppQuery(q)
    \/ Respond

\* the three query engines from an empty database on
SpecAnswers == Init /\ [][NextAnswers]_vars

\* the labels the clients of POST /api/mood-record send
ReportEmotions == <<"happy", "sad", "angry", "fear", "disgust", "neutral">>

\* a store of n records over `kinds` emotions in turn, starting `lead`
\* places into ReportEmotions; the first `high` records were detected with
\* confidence 90 and the rest with 60
NotesStore(n, kinds, lead, high) ==
    [i \in 1..n |->
        [emotion |-> ReportEmotions[((((i - 1) % kinds) + lead)
                                        % Len(ReportEmotions)) + 1],
         user_id |-> IF i = 1 THEN "u2" ELSE "u1",
         confidence |-> IF i <= high THEN 90 ELSE 60,
         timestamp |-> i]]

InitNotes ==
    \E n \in 0..MaxNotes, kinds \in 1..Len(ReportEmotions),
       lead \in 0..(Len(ReportEmotions) - 1) :
        \E high \in 0..n : StartedOn(NotesStore(n, kinds, lead, high), FALSE)

NextNotes ==
    \/ \E u \in Actors \cup {NoUser} : GetInsights(u)
    \/ AppInsights
    \/ Respond

\* the analysis block of the reports over stores of up to MaxNotes records
SpecNotes == InitNotes /\ [][NextNotes]_vars

\* questions that ask for an emotion by its label
LabelQuestions == {<<"happy">>, <<"sad">>, <<"negative">>, <<"team">>}

NextLabels ==
    \/ \E u \in {"u1", NoUser}, i \in 1..Len(emotion_labels) :
          DetectEmotion(u, i, SomeConfidence)
    \/ Rebuild("ok")
    \/ \E q \in LabelQuestions : Query(q, NoUser)
    \/ Respond

\* events recorded by the detection endpoint, then queried by label
SpecLabels == Init /\ [][NextLabels]_vars

(***************************************************************************)
(* Claims.                                                                 *)
(***************************************************************************)
NoDataKinds == {"NotAvailableYet", "NoDataToQuery", "NoDataYet"}

Engine == last.op \in {"query", "insights"}

\* C1: a query or report that starts with an empty record cache performs
\* exactly one implicit rebuild before it answers, whatever the engine
\* state; when that rebuild loads no event the request returns the
\* "no data" answer.  Stated for an engine whose construction succeeded.
C1_OneImplicitRebuild ==
    (Engine /\ last.started_empty /\ collection # "unset")
        => /\ last.rebuilds = 1
           /\ ~last.raised
           /\ (last.op = "query" /\ last.loaded = 0)
                 => last.answer.kind \in NoDataKinds

\* C2: when the store read raises during a rebuild, the record cache after
\* the rebuild is the cache from before it, for api_server.EmotionRAG and
\* for rag_enhanced.EnhancedEmotionRAG alike.
C2_StoreFailureKeepsCache ==
    /\ (last.op = "rebuild" /\ last.fail = "store")
          => records_cache = last.cache_before
    /\ (last.op = "enhanced_rebuild" /\ last.fail = "store")
          => enhanced_cache = last.cache_before

DistinctIds(docs) ==
    \A i, j \in 1..Len(docs) : docs[i].id = docs[j].id => i = j

\* C4: rebuilds run one after the other, and when a rebuild has completed
\* the index holds exactly one document per event of the cache that rebuild
\* wrote: no duplicate, and none missing or left over.
C4_IndexMatchesLastRebuild ==
    (last.op = "rebuild" /\ last.fail = "ok" /\ embedder /\ chroma)
        => (Len(index) = Len(records_cache) /\ DistinctIds(index))

\* C5: a rebuild repeated over an unchanged store (and ending as the one
\* before it did) leaves the cache and the indexed documents as they were:
\* it adds no duplicate; every answer, a function of these, is the same.
C5_RebuildIdempotent ==
    /\ (last.op = "rebuild" /\ last.repeat)
          => /\ records_cache = last.cache_before
             /\ collection = last.collection_before
             /\ index = last.index_before
             /\ DistinctIds(index)
    /\ (last.op = "ts_rebuild" /\ last.repeat)
          => /\ ts_collection = last.collection_before
             /\ DistinctIds(ts_collection)

C5_Witness ==
    /\ last.op = "rebuild"
    /\ last.repeat
    /\ last.fail = "ok"
    /\ Len(index) = 2

\* C6: query raises to its caller exactly when the question is empty.
C6_RaisesOnlyOnEmptyQuestion ==
    last.op = "query" => (last.raised <=> last.q = <<>>)

\* C7: when the vector search raises or returns nothing, the query answers
\* from the whole record cache, as the cache-only path does for the same
\* question and actor, and nothing is raised to the caller.
C7_FallbackToCache ==
    (last.op = "query" /\ last.search \in {"raised", "empty"})
        => /\ ~last.raised
           /\ last.scope = CacheMetas(records_cache)
           /\ last.answer = AnswerFrom(CacheMetas(records_cache),
                                       last.q, last.user)

C7_Witness ==
    /\ last.op = "query"
    /\ last.search = "raised"
    /\ collection = "live"
    /\ index # <<>>
    /\ last.answer.kind = "MostCommon"
    /\ last.answer.n = 2

\* C8: for a MostCommon or GroupHealth question the engine with a vector
\* index returns the answer that the cache-only engine returns from the
\* same record cache, also when the cache holds more events than the
\* search's top-K.
C8_SameAnswerFullAndCacheOnly ==
    (/\ last.op = "query"
     /\ Intent(last.q) \in {"MostCommon", "GroupHealth"}
     /\ last.search = "hits")
        => last.answer = AnswerFrom(CacheMetas(records_cache),
                                    last.q, last.user)

\* C9: a query whose actor filter matches no record of a non-empty record
\* set returns the message naming that actor, which is not the global
\* "no data" message, and nothing computed from other actors' records.
C9_NoDataForActor ==
    (/\ last.op = "query"
     /\ last.user # NoUser
     /\ last.scope # <<>>
     /\ FilterUser(last.scope, last.user) = <<>>)
        => /\ last.answer = [Ans("NoDataForUser") EXCEPT !.user = last.user]
           /\ last.answer.kind \notin NoDataKinds

C9_Witness ==
    /\ last.op = "query"
    /\ last.user = "u2"
    /\ Len(last.scope) = 2
    /\ FilterUser(last.scope, "u2") = <<>>
    /\ last.answer.kind = "NoDataForUser"

\* the families of keywords in the order of priority the specification
\* gives, 1 the highest
FamilyRank(w) ==
    CASE w \in {"most", "common", "frequent"} -> 1
      [] w \in {"recent", "latest", "last"} -> 2
      [] w \in {"pattern", "trend"} -> 3
      [] w \in {"happy", "sad", "angry", "fear", "surprise", "disgust",
                "neutral"} -> 4
      [] w \in {"feel", "emotion", "mood"} -> 5
      [] w \in {"struggling", "concern", "negative"} -> 6
      [] w \in {"team", "department", "organizational"} -> 7
      [] OTHER -> 8

BestRank(q) ==
    IF q = <<>> THEN 8
    ELSE CHOOSE r \in 1..8 :
           /\ \E i \in 1..Len(q) : FamilyRank(Lower(q[i])) = r
           /\ \A i \in 1..Len(q) : FamilyRank(Lower(q[i])) >= r

KindsOfRank(r) ==
    CASE r = 1 -> {"MostCommon"}
      [] r = 2 -> {"Recent"}
      [] r = 3 -> {"Pattern"}
      [] r = 4 -> {"SpecificSignificant", "SpecificMinor"}
      [] r = 5 -> {"GeneralMood"}
      [] r = 6 -> {"NegativeFound", "NoConcerning"}
      [] r = 7 -> {"GroupHealth"}
      [] OTHER -> {"Generic"}

Synthesized ==
    /\ last.op = "query"
    /\ last.scope # <<>>
    /\ last.answer.kind # "NoDataForUser"

\* C10: the answer comes from the branch of the highest-priority keyword
\* family the question contains (MostCommon > Recent > Pattern >
\* SpecificEmotion > GeneralMood > Negative > GroupHealth > Generic),
\* wherever in the question the keywords stand.
C10_IntentPriority ==
    Synthesized
        => /\ last.answer.kind \in KindsOfRank(BestRank(last.q))
           /\ last.answer = AnswerFrom(last.scope, Reverse(last.q), last.user)

\* "... recent most ..." is answered as MostCommon
C10_Witness ==
    /\ Synthesized
    /\ last.q = <<"recent", "Most">>
    /\ last.answer.kind = "MostCommon"
    /\ last.answer.n = 2

\* the records an answer is computed from: the scope of a query after the
\* actor filter, the cache of the enhanced engine
RecordSet ==
    IF last.op = "query"
    THEN IF last.user # NoUser THEN FilterUser(last.scope, last.user)
         ELSE last.scope
    ELSE last.cache

Occurrences(records, e) ==
    Cardinality({i \in 1..Len(records) : records[i].emotion = e})

FirstOccurrence(records, e) ==
    CHOOSE i \in 1..Len(records) :
        /\ records[i].emotion = e
        /\ \A j \in 1..(i - 1) : records[j].emotion # e

MostCommonAnswered ==
    \/ last.op = "query" /\ Synthesized /\ Intent(last.q) = "MostCommon"
    \/ /\ last.op = "enhanced_query"
       /\ last.source # "gemini-enhanced"
       /\ last.cache # <<>>
       /\ EnhancedIntent(last.q) = "MostCommon"

\* C11: a MostCommon answer over a non-empty record set names an emotion of
\* the highest count, and that count; among emotions sharing the highest
\* count it names the one that occurs first in the record set.
C11_MostCommonFirstEncountered ==
    MostCommonAnswered
        => LET e == last.answer.emotion
           IN /\ Occurrences(RecordSet, e) > 0
              /\ last.answer.n = Occurrences(RecordSet, e)
              /\ \A i \in 1..Len(RecordSet) :
                    LET d == RecordSet[i].emotion
                    IN d # e =>
                         \/ Occurrences(RecordSet, d) < last.answer.n
                         \/ /\ Occurrences(RecordSet, d) = last.answer.n
                            /\ FirstOccurrence(RecordSet, e)
                                 < FirstOccurrence(RecordSet, d)

\* a tie: one sad record, then one happy record
C11_Witness ==
    /\ MostCommonAnswered
    /\ Len(RecordSet) = 2
    /\ RecordSet[1].emotion = "sad"
    /\ RecordSet[2].emotion = "happy"
    /\ last.answer.emotion = "sad"
    /\ last.answer.n = 1

RecentAnswered ==
    \/ last.op = "query" /\ Synthesized /\ Intent(last.q) = "Recent"
    \/ /\ last.op = "enhanced_query"
       /\ last.source # "gemini-enhanced"
       /\ last.cache # <<>>
       /\ EnhancedIntent(last.q) = "Recent"

\* C12: a Recent answer reports the event with the latest timestamp among
\* the records in scope, in the cache-only path, in the vector-search path
\* and in the rule-based engine of rag_enhanced.
C12_RecentIsLatest ==
    RecentAnswered
        => /\ \E i \in 1..Len(RecordSet) :
                 /\ RecordSet[i].timestamp = last.answer.n
                 /\ RecordSet[i].emotion = last.answer.emotion
           /\ \A i \in 1..Len(RecordSet) :
                 RecordSet[i].timestamp <= last.answer.n

LiteralSet == {EmotionLiterals[i] : i \in 1..Len(EmotionLiterals)}

\* the emotion label that comes first in the text of the question
FirstMentioned(q) ==
    LET i == CHOOSE i \in 1..Len(q) :
                 /\ Lower(q[i]) \in LiteralSet
                 /\ \A j \in 1..(i - 1) : Lower(q[j]) \notin LiteralSet
    IN Lower(q[i])

\* C13: a SpecificEmotion answer counts the occurrences of the emotion label
\* mentioned first in the question, and calls it significant exactly when
\* that count is greater than 2, minor otherwise.
C13_FirstMentionedEmotion ==
    (last.op = "query" /\ Synthesized /\ Intent(last.q) = "SpecificEmotion")
        => /\ last.answer.emotion = FirstMentioned(last.q)
           /\ last.answer.n = Occurrences(RecordSet, FirstMentioned(last.q))
           /\ last.answer.kind =
                 IF last.answer.n > 2 THEN "SpecificSignificant"
                 ELSE "SpecificMinor"

RECURSIVE ConfidenceOf(_, _)
ConfidenceOf(records, e) ==
    IF records = <<>> THEN 0
    ELSE (IF Head(records).emotion = e THEN Head(records).confidence ELSE 0)
         + ConfidenceOf(Tail(records), e)

RECURSIVE SumNumerators(_)
SumNumerators(dist) ==
    IF dist = <<>> THEN 0 ELSE Head(dist)[2] + SumNumerators(Tail(dist))

\* the aggregate of a request and the records it was computed from
Aggregated ==
    \/ last.op = "enhanced_stats" /\ last.cache # <<>>
    \/ last.op = "insights" /\ last.report # NoStats

AggregateRecords ==
    IF last.op = "enhanced_stats" THEN last.cache
    ELSE get_mood_records(last.user, InsightsLimit)

AggregateCounts ==
    IF last.op = "enhanced_stats" THEN last.stats.emotion_counts
    ELSE last.report.emotion_counts

AggregateAverages ==
    IF last.op = "enhanced_stats" THEN last.stats.average_confidence
    ELSE last.report.avg_confidences

AggregateDistribution ==
    IF last.op = "enhanced_stats" THEN last.stats.emotion_distribution
    ELSE [i \in 1..Len(last.report.rows) |->
            <<last.report.rows[i].emotion, last.report.rows[i].pct[1],
              last.report.rows[i].pct[2]>>]

\* C14: the aggregate of a non-empty record set has per-emotion counts that
\* sum to the number of records, percentages count / total * 100 that sum
\* to 100, and per emotion an average confidence of the confidence sum of
\* its records over their number; the aggregate of an empty record set is
\* the empty mapping.
C14_AggregateTotals ==
    /\ (last.op = "enhanced_stats" /\ last.cache = <<>>) => last.stats = NoStats
    /\ Aggregated =>
          /\ SumCounts(AggregateCounts) = Len(AggregateRecords)
          /\ \A i \in 1..Len(AggregateCounts) :
                AggregateCounts[i][2]
                    = Occurrences(AggregateRecords, AggregateCounts[i][1])
          /\ \A i \in 1..Len(AggregateDistribution) :
                /\ AggregateDistribution[i][3] = Len(AggregateRecords)
                /\ AggregateDistribution[i][2]
                     = 100 * Occurrences(AggregateRecords,
                                         AggregateDistribution[i][1])
          /\ SumNumerators(AggregateDistribution) = 100 * Len(AggregateRecords)
          /\ Len(AggregateAverages) = Len(AggregateCounts)
          /\ \A i \in 1..Len(AggregateAverages) :
                LET e == AggregateAverages[i][1]
                IN /\ AggregateAverages[i][2] = ConfidenceOf(AggregateRecords, e)
                   /\ AggregateAverages[i][3] = Occurrences(AggregateRecords, e)

\* three records, two of them happy with confidences 60 and 90
C14_Witness ==
    /\ last.op = "enhanced_stats"
    /\ Len(last.cache) = 3
    /\ last.stats.emotion_counts = << <<"sad", 1>>, <<"happy", 2>> >>
    /\ \E i \in 1..2 : last.stats.average_confidence[i] = <<"happy", 150, 2>>

Rendered ==
    /\ last.op \in {"insights", "enhanced_insights", "app_insights"}
    /\ last.report # NoStats

\* min(floor(percentage / 3), 20) of the percentage num / den
ExpectedBar(num, den) ==
    LET floor == CHOOSE b \in 0..34 :
                     3 * b * den <= num /\ num < 3 * (b + 1) * den
    IN IF floor < 20 THEN floor ELSE 20

\* C15: in every rendered insight report, of every report generator, the
\* bar of a distribution row has length min(floor(percentage / 3), 20): 10
\* characters at 30%, 20 at 70%.
C15_BarLength ==
    Rendered
        => \A i \in 1..Len(last.report.rows) :
              last.report.rows[i].bar
                  = ExpectedBar(last.report.rows[i].pct[1],
                                last.report.rows[i].pct[2])

\* C16: when the store read fails during a rebuild the caller is told that
\* no new data was loaded (a false result), also while a non-empty cache of
\* an earlier rebuild is held.
C16_StoreFailureReported ==
    (last.op = "rebuild" /\ last.fail = "store") => ~last.ret

Blank(key) == \A i \in 1..Len(key) : key[i] = " "

Configuring == last.op \in {"set_gemini_api_key", "configure_gemini"}

\* C17: configuring Gemini with an empty or whitespace-only key is rejected
\* (set_gemini_api_key returns False, the endpoint reports a failure) and
\* leaves GEMINI_ENABLED and GEMINI_API_KEY as they were.
C17_BlankKeyRejected ==
    (Configuring /\ Blank(last.key))
        => /\ ~last.success
           /\ last.op = "configure_gemini" => last.status = 400
           /\ GEMINI_ENABLED = last.enabled_before
           /\ GEMINI_API_KEY = last.key_before

\* a whitespace-only key given to an engine that is configured
C17_Witness ==
    /\ last.op = "set_gemini_api_key"
    /\ last.key = <<" ", " ">>
    /\ genai
    /\ GEMINI_ENABLED
    /\ GEMINI_API_KEY = <<"a", " ", "a">>
    /\ ~last.success

\* C18: after every completed rebuild under Full capability, also one that
\* loads no event or whose insertion into the index fails, the index holds
\* exactly the documents of the current cache: one per cached event, with
\* its emotion, actor and timestamp under its sequence id, and no document
\* of an earlier snapshot.
C18_IndexIsCacheAfterRebuild ==
    (last.op = "rebuild" /\ last.fail \in {"ok", "add"} /\ embedder /\ chroma)
        => /\ Len(index) = Len(records_cache)
           /\ \A i \in 1..Len(index) :
                 /\ index[i].id = i - 1
                 /\ index[i].emotion = records_cache[i].emotion
                 /\ index[i].user_id = records_cache[i].user_id
                 /\ index[i].timestamp = records_cache[i].timestamp

\* C19: under Full capability a query filtered by an actor who has an
\* event in the index is answered from that actor's events; the actor's
\* "no data" message is not returned because none of the actor's events is
\* among the unfiltered top-K results.
C19_FilterInsideSearch ==
    (/\ last.op = "query"
     /\ last.search = "hits"
     /\ last.user # NoUser
     /\ FilterUser(index, last.user) # <<>>)
        => last.answer.kind # "NoDataForUser"

\* the cached events a report for the requested actor is to aggregate
CachedFor(user) ==
    IF user # NoUser THEN FilterUser(records_cache, user) ELSE records_cache

\* C20: an insight report aggregates exactly the events of the record cache
\* (filtered by the actor), so a report and a cache-only query issued in the
\* same engine state rest on the same record set.
C20_ReportFromCache ==
    (last.op = "insights" /\ last.answer.kind \in {"Report", "NoDataYet"})
        => IF CachedFor(last.user) = <<>>
           THEN last.answer.kind = "NoDataYet"
           ELSE /\ last.answer.kind = "Report"
                /\ last.report.total_records = Len(CachedFor(last.user))
                /\ last.report.emotion_counts
                     = EmotionCounts(CachedFor(last.user))


\* the label a record is counted under if labels are case-normalized
LabelKey(label) ==
    CASE label = "Angry" -> "angry" [] label = "Disgust" -> "disgust"
      [] label = "Fear" -> "fear" [] label = "Happy" -> "happy"
      [] label = "Neutral" -> "neutral" [] label = "Sad" -> "sad"
      [] label = "Surprise" -> "surprise" [] OTHER -> label

\* the number of records in scope whose normalized label is in `keys`
Labelled(scope, keys) ==
    Cardinality({i \in 1..Len(scope) : LabelKey(scope[i].emotion) \in keys})

\* C21: emotion labels are case-normalized before counting: the events the
\* detection endpoint recorded ('Happy', 'Sad', ...) are counted under the
\* labels the SpecificEmotion and Negative branches look up ('happy',
\* 'sad', ...), so a specific-emotion answer reports the number of records
\* in scope of that emotion and a negative answer the number of records of
\* a negative emotion.
C21_LabelsNormalized ==
    (last.op = "query" /\ last.user = NoUser)
        => /\ last.answer.kind \in {"SpecificSignificant", "SpecificMinor"}
                => last.answer.n = Labelled(last.scope, {last.answer.emotion})
           /\ last.answer.kind = "NoConcerning"
                => Labelled(last.scope, {"sad", "angry", "fear", "disgust"}) = 0
           /\ last.answer.kind = "NegativeFound"
                => last.answer.n
                     = Labelled(last.scope, {"sad", "angry", "fear", "disgust"})


\* C22: in an insight report, whenever the dominant emotion is in the
\* negative set {sad, angry, fear, disgust} the analysis block holds the
\* warning and the support message, whenever it is in the positive set
\* {happy, neutral} it holds the balanced message, and the two are never
\* both present.
C22_AnalysisByDominant ==
    (last.op \in {"insights", "app_insights"} /\ last.report # NoStats)
        => /\ last.report.most_common \in {"sad", "angry", "fear", "disgust"}
                => {"warning", "support"} \subseteq last.report.analysis
           /\ last.report.most_common \in {"happy", "neutral"}
                => "balanced" \in last.report.analysis
           /\ ~({"balanced", "warning"} \subseteq last.report.analysis)

RECURSIVE TotalConfidence(_)
TotalConfidence(records) ==
    IF records = <<>> THEN 0
    ELSE Head(records).confidence + TotalConfidence(Tail(records))

DistinctEmotions(records) ==
    Cardinality({records[i].emotion : i \in 1..Len(records)})

\* the records a report of api_server was computed from
Reported == get_mood_records(last.user, InsightsLimit)

\* C23: the qualitative notes of the report follow exact boundaries: 5 or
\* more distinct emotions add the high-variety note, 2 or fewer the stable
\* note, 3 or 4 neither; an overall average confidence (sum of all
\* confidences / number of records) of 85 or more adds the high-confidence
\* note, one below 70 the low-confidence note, one in [70, 85) neither.
C23_NoteBoundaries ==
    (last.op = "insights" /\ last.report # NoStats)
        => /\ "high_variety" \in last.report.analysis
                <=> DistinctEmotions(Reported) >= 5
           /\ "stable" \in last.report.analysis
                <=> DistinctEmotions(Reported) <= 2
           /\ "high_confidence" \in last.report.analysis
                <=> TotalConfidence(Reported) >= 85 * Len(Reported)
           /\ "low_confidence" \in last.report.analysis
                <=> TotalConfidence(Reported) < 70 * Len(Reported)

\* a report over five emotions whose average confidence is exactly 85
C23_Witness ==
    /\ last.op = "insights"
    /\ last.report # NoStats
    /\ DistinctEmotions(Reported) = 5
    /\ TotalConfidence(Reported) = 85 * Len(Reported)
    /\ {"high_variety", "high_confidence"} \subseteq last.report.analysis


\* C24: every answer branch of query() is total on an empty record set:
\* when no records are in scope the result of each of the three engines is
\* a defined "no data" message and nothing is raised (no division by zero,
\* no maximum of an empty count mapping).
C24_TotalOnEmpty ==
    /\ (last.op = "query" /\ last.scope = <<>>)
          => ~last.raised /\ last.answer.kind \in NoDataKinds
    /\ (last.op = "enhanced_query" /\ last.cache = <<>>
            /\ last.source # "gemini-enhanced")
          => last.answer.kind = "EnhancedNoData"
    /\ (last.op = "app_query" /\ last.scope = <<>>)
          => ~last.raised /\ last.answer.kind = "BuildFirst"


\* the most recent events of the store, newest first, no more than the cap
IsListing(cache, store) ==
    /\ Len(cache) = (IF Len(store) <= 1000 THEN Len(store) ELSE 1000)
    /\ \A i \in 1..Len(cache) : cache[i] = store[Len(store) + 1 - i]

NewestFirst(cache) ==
    \A i \in 1..(Len(cache) - 1) : cache[i].timestamp >= cache[i + 1].timestamp

\* the latest rebuild read the store and the store has not changed since
Fresh == built_with \notin {"stale", "store"}

\* C25: in every reachable engine state the record cache holds at most 1000
\* events, newest first, and is the store's listing of its most recent
\* events as of the last rebuild that read the store; it is only ever
\* replaced as a whole by such a listing, never appended to or edited.
C25_CacheIsSnapshot ==
    /\ [](/\ Len(records_cache) <= 1000
          /\ NewestFirst(records_cache)
          /\ Fresh => IsListing(records_cache, mood_records))
    /\ [][records_cache' # records_cache
            => IsListing(records_cache', mood_records')]_vars

\* a rebuild has cut the listing of a store of more than 1000 events
C25_Witness ==
    /\ last.op = "rebuild"
    /\ Len(mood_records) > 1000
    /\ Len(records_cache) = 1000
    /\ records_cache[1] = mood_records[Len(mood_records)]


\* C26: query() is deterministic: two engine instances with equal cache,
\* equal index contents and equal capability return the same answer string
\* for the same question and actor filter, including the order in which
\* the emotions are listed.
C26_Deterministic ==
    last.op \in {"query_twice", "enhanced_query_twice"}
        => last.first = last.second


\* C27: query_with_gemini always returns an answer: while Gemini is not
\* enabled the source is 'rule-based', when the Gemini call raises it is
\* 'rule-based-fallback'; in both cases the answer is that of
\* query_rule_based for the question and no exception reaches the caller.
C27_AlwaysAnswers ==
    last.op = "enhanced_query"
        => /\ ~(GEMINI_ENABLED /\ genai) => last.source = "rule-based"
           /\ last.source \in {"gemini-enhanced", "rule-based",
                                "rule-based-fallback"}
           /\ last.source # "gemini-enhanced"
                => /\ last.answer = query_rule_based(last.cache, last.q)
                   /\ last.cache = <<>> => last.answer.kind = "EnhancedNoData"
                   /\ last.cache # <<>>
                        => last.answer.kind
                             \in {"MostCommon", "Recent", "Pattern",
                                  "NegativeFound", "Positive", "Generic"}

\* the Gemini call raised over a cache of two records and the rule-based
\* answer was returned
C27_Witness ==
    /\ last.op = "enhanced_query"
    /\ last.source = "rule-based-fallback"
    /\ Len(last.cache) = 2
    /\ last.answer.kind = "MostCommon"
    /\ last.answer.n >= 1


\* the event of a record in scope was held by the cache or by the index
FromSnapshot(meta) ==
    \/ \E j \in 1..Len(records_cache) :
          /\ records_cache[j].timestamp = meta.timestamp
          /\ records_cache[j].emotion = meta.emotion
          /\ records_cache[j].user_id = meta.user_id
    \/ \E j \in 1..Len(index) :
          /\ index[j].timestamp = meta.timestamp
          /\ index[j].emotion = meta.emotion
          /\ index[j].user_id = meta.user_id

\* C28: a mood event written to the store after the last rebuild is not
\* reflected in a query answer until the next rebuild: a query that finds a
\* non-empty cache reads no store (it runs no rebuild), leaves cache and
\* index as they are and answers from records of that snapshot only; the
\* rule-based answer of the enhanced engine is a function of its cache.
C28_QueryReadsSnapshot ==
    [][/\ (last'.op = "query" /\ records_cache # <<>>)
            => /\ last'.rebuilds = 0
               /\ UNCHANGED <<records_cache, collection, index, mood_records>>
               /\ \A i \in 1..Len(last'.scope) : FromSnapshot(last'.scope[i])
               /\ last'.answer.kind # "AttributeError"
                    => last'.answer
                         = AnswerFrom(last'.scope, last'.q, last'.user)
       /\ (last'.op = "enhanced_query" /\ last'.source # "gemini-enhanced")
            => /\ UNCHANGED <<enhanced_cache, mood_records>>
               /\ last'.cache = enhanced_cache
               /\ last'.answer = query_rule_based(enhanced_cache, last'.q)
      ]_vars

\* a query answered from a cache of one event while the store holds two
C28_Witness ==
    /\ last.op = "query"
    /\ ~last.started_empty
    /\ Len(mood_records) = 2
    /\ Len(records_cache) = 1
    /\ last.answer.kind = "MostCommon"
    /\ last.answer.n = 1


\* C29: after a rebuild that finds the store empty, every later query
\* returns a "no data" answer until a rebuild loads events: while the cache
\* is empty a query has no records in scope, and no query is answered from
\* index documents of a snapshot older than the current cache.  Stated for
\* an engine whose construction succeeded.
C29_NoAnswerFromOlderSnapshot ==
    (last.op = "query" /\ collection # "unset")
        => /\ records_cache = <<>>
                => (last.scope = <<>> /\ last.answer.kind \in NoDataKinds)
           /\ last.search = "hits"
                => \A i \in 1..Len(last.scope) :
                      \E j \in 1..Len(records_cache) :
                         records_cache[j].timestamp = last.scope[i].timestamp


\* C30: a task is deleted only on behalf of an HR user: in every call of
\* delete_task, also one without a user id, the task row is removed only if
\* the requesting user exists and has the role 'hr'; otherwise the tasks
\* table is unchanged and False is returned.
C30_DeleteOnlyByHR ==
    (last.op = "delete_task" /\ RoleOf(last.user) # "hr")
        => (tasks = last.tasks_before /\ ~last.success)

=============================================================================
